---- MODULE Spec2Model ----
(***************************************************************************)
(* A model of st_debt.py: the amortization and scenario-comparison         *)
(* functions (calculate_monthly_payment, calculate_remaining_balance,      *)
(* calculate_total_interest, calculate_revolving_payment,                  *)
(* calculate_revolving_borrowing_cost_daily,                               *)
(* calculate_weighted_average_interest, generate_repayment_timeline) and   *)
(* the module-level script that evaluates a portfolio with them.           *)
(*                                                                         *)
(* Numbers.  Python floats are modelled by exact rationals <<n, d>> with   *)
(* d > 0 in lowest terms.  The closed-form loan formulas are evaluated     *)
(* exactly, on rates whose monthly growth factor is rational (so that the  *)
(* twelfth root of the rate conversion is exact).  The two day/month       *)
(* loops round every accrued interest amount to the grid 1/Scale, the way  *)
(* a float product is rounded to the nearest representable value.          *)
(***************************************************************************)
EXTENDS Integers, Sequences, FiniteSets, TLC

(***************************************************************************)
(* Rational arithmetic (the float operators of the source).                *)
(***************************************************************************)
Abs(i) == IF i < 0 THEN -i ELSE i

RECURSIVE GCD(_, _)
GCD(a, b) == IF b = 0 THEN a ELSE GCD(b, a % b)

\* n/d in lowest terms with a positive denominator (d # 0)
Frac(n, d) ==
    LET g == GCD(Abs(n), Abs(d))
        s == IF d < 0 THEN -1 ELSE 1
    IN  << (s * n) \div g, (s * d) \div g >>

R(i) == << i, 1 >>

Zero == R(0)

One == R(1)

IsZero(x) == x[1] = 0

RAdd(x, y) ==
    LET g == GCD(x[2], y[2])
        l == (x[2] \div g) * y[2]
    IN  Frac(x[1] * (l \div x[2]) + y[1] * (l \div y[2]), l)

RNeg(x) == << -x[1], x[2] >>

RSub(x, y) == RAdd(x, RNeg(y))

RMul(x, y) ==
    LET g1 == GCD(Abs(x[1]), y[2])
        g2 == GCD(Abs(y[1]), x[2])
    IN  Frac((x[1] \div g1) * (y[1] \div g2), (x[2] \div g2) * (y[2] \div g1))

\* x / y for y # 0 (the callers raise ZeroDivisionError when y = 0)
RDiv(x, y) == RMul(x, Frac(y[2], y[1]))

RLt(x, y) == x[1] * y[2] < y[1] * x[2]

RLe(x, y) == x[1] * y[2] <= y[1] * x[2]

RMax(x, y) == IF RLt(x, y) THEN y ELSE x

RMin(x, y) == IF RLt(y, x) THEN y ELSE x

RECURSIVE IPow(_, _)
IPow(i, k) == IF k = 0 THEN 1 ELSE i * IPow(i, k - 1)

\* x ** k for an integer k and x # 0
RPow(x, k) ==
    IF k >= 0 THEN Frac(IPow(x[1], k), IPow(x[2], k))
    ELSE Frac(IPow(x[2], -k), IPow(x[1], -k))

\* the integer nearest to x * k, ties to the even one (Python's round)
RoundMul(x, k) ==
    LET t == (x[1] % x[2]) * k
        base == k * (x[1] \div x[2]) + (t \div x[2])
        r2 == 2 * (t % x[2])
    IN  IF r2 < x[2] THEN base
        ELSE IF r2 > x[2] THEN base + 1
        ELSE IF base % 2 = 0 THEN base ELSE base + 1

\* round(x, 2)
Round2(x) == Frac(RoundMul(x, 100), 100)

\* int(x): truncation toward zero
Trunc(x) == IF x[1] >= 0 THEN x[1] \div x[2] ELSE -((-x[1]) \div x[2])

(***************************************************************************)
(* Bounds of the model.                                                    *)
(***************************************************************************)
\* resolution of the amounts in the two loops: multiples of 1/Scale
Scale == 100

\* a revolving run is followed until its balance has grown by MaxGrowth
MaxGrowth == 30

\* longest horizon (max_months) handed to the timeline generator
MaxHorizon == 4

\* largest term and largest number of elapsed months of a direct call
MaxTerm == 3

MaxElapsed == 4

\* number of debts entered in the form (the form allows 1..10)
MaxDebts == 2

\* the product of a float operation, rounded to the grid
Fl(x) == Frac(RoundMul(x, Scale), Scale)

(***************************************************************************)
(* Results of a call: a value, or the exception the call raised.           *)
(***************************************************************************)
Ok(v) == [kind |-> "ok", val |-> v]

Raise(e) == [kind |-> e, val |-> Zero]

NoResult == [kind |-> "none", val |-> Zero]

(***************************************************************************)
(* Rate conversion: x ** (1 / 12).  The monthly growth factors of the      *)
(* rates the model draws are the members of Growth; the root of any other  *)
(* value is not drawn.                                                     *)
(***************************************************************************)
Growth == { R(2), Frac(3, 2) }

Root12(x) == CHOOSE g \in Growth : RPow(g, 12) = x

\* the nominal annual rate whose monthly growth factor is g
AnnualOf(g) == RMul(R(2), RSub(RPow(g, 6), One))

(***************************************************************************)
(* calculate_monthly_payment(principal, annual_rate, months)               *)
(* returns (monthly_payment, periodic_rate)                                *)
(***************************************************************************)
calculate_monthly_payment(principal, annual_rate, months) ==
    IF IsZero(annual_rate)
    THEN IF months = 0 THEN Raise("ZeroDivisionError")
         ELSE Ok(<< RDiv(principal, R(months)), Zero >>)
    ELSE LET effective_rate == RSub(RPow(RAdd(One, RDiv(annual_rate, R(2))), 2), One)
             periodic_rate == RSub(Root12(RAdd(One, effective_rate)), One)
             denom == RSub(One, RPow(RAdd(One, periodic_rate), -months))
         IN  IF IsZero(denom) THEN Raise("ZeroDivisionError")
             ELSE Ok(<< RMul(principal, RDiv(periodic_rate, denom)), periodic_rate >>)

(***************************************************************************)
(* calculate_remaining_balance(principal, annual_rate, months_elapsed,     *)
(*                             total_term)                                 *)
(***************************************************************************)
\* a variant that counts the current month as already paid
remaining_balance_month_ahead(principal, annual_rate, months_elapsed, total_term) ==
    IF IsZero(annual_rate)
    THEN IF total_term = 0 THEN Raise("ZeroDivisionError")
         ELSE Ok(RMul(principal, RSub(One, Frac(months_elapsed + 1, total_term))))
    ELSE LET mp == calculate_monthly_payment(principal, annual_rate, total_term)
         IN  IF mp.kind # "ok" THEN mp
             ELSE LET grown == RPow(RAdd(One, mp.val[2]), months_elapsed + 1)
                  IN  Ok(RSub(RMul(principal, grown),
                              RMul(RDiv(mp.val[1], mp.val[2]), RSub(grown, One))))

calculate_remaining_balance(principal, annual_rate, months_elapsed, total_term) ==
    IF IsZero(annual_rate)
    THEN IF total_term = 0 THEN Raise("ZeroDivisionError")
         ELSE Ok(RMul(principal, RSub(One, Frac(months_elapsed, total_term))))
    ELSE LET mp == calculate_monthly_payment(principal, annual_rate, total_term)
         IN  IF mp.kind # "ok" THEN mp
             ELSE LET monthly_payment == mp.val[1]
                      periodic_rate == mp.val[2]
                      grown == RPow(RAdd(One, periodic_rate), months_elapsed)
                  IN  Ok(RSub(RMul(principal, grown),
                              RMul(RDiv(monthly_payment, periodic_rate),
                                   RSub(grown, One))))

(***************************************************************************)
(* calculate_total_interest(principal, annual_rate, months)                *)
(***************************************************************************)
calculate_total_interest(principal, annual_rate, months) ==
    IF months = 0 THEN Ok(Zero)
    ELSE LET mp == calculate_monthly_payment(principal, annual_rate, months)
         IN  IF mp.kind # "ok" THEN mp
             ELSE Ok(RSub(RMul(mp.val[1], R(months)), principal))

(***************************************************************************)
(* calculate_revolving_payment(balance, annual_rate)                       *)
(***************************************************************************)
min_payment_percent == 3

fixed_min_payment == 10

calculate_revolving_payment(balance, annual_rate) ==
    LET percentage_payment == RMul(balance, Frac(min_payment_percent, 100))
    IN  RMax(percentage_payment, R(fixed_min_payment))

(***************************************************************************)
(* calculate_revolving_borrowing_cost_daily: the body of the loops.        *)
(***************************************************************************)
DaysInYear == 365

days_in_month == 30

daily_rate_of(annual_rate) == RDiv(annual_rate, R(DaysInYear))

\* One iteration of "for day in range(days_in_month)" (lines 45-51):
\* accrue one day, then pay the debt off if the payment covers it.
AccrueDay(rb, mi, ti, daily_rate, payment) ==
    LET daily_interest == Fl(RMul(rb, daily_rate))
        mi2 == RAdd(mi, daily_interest)
        rb2 == RAdd(rb, daily_interest)
    IN  IF RLe(rb2, payment)
        THEN [rb |-> Zero, mi |-> mi2, ti |-> RAdd(ti, mi2),
              di |-> daily_interest, brk |-> TRUE]
        ELSE [rb |-> rb2, mi |-> mi2, ti |-> ti,
              di |-> daily_interest, brk |-> FALSE]

\* a variant without the "if remaining_balance == 0: break" of lines 52-53
MonthEnd_without_break(rb, mi, ti, payment) ==
    LET pay == RMin(payment, rb)
        rb2 == RSub(rb, pay)
    IN  [rb |-> IF RLt(rb2, Zero) THEN Zero ELSE rb2,
         ti |-> RAdd(ti, mi), brk |-> FALSE]

\* After the for loop (lines 52-58): leave the while loop when the balance
\* is 0, else book the month's interest and subtract the payment.
MonthEnd(rb, mi, ti, payment) ==
    IF IsZero(rb)
    THEN [rb |-> rb, ti |-> ti, brk |-> TRUE]
    ELSE LET pay == RMin(payment, rb)
             rb2 == RSub(rb, pay)
         IN  [rb |-> IF RLt(rb2, Zero) THEN Zero ELSE rb2,
              ti |-> RAdd(ti, mi), brk |-> FALSE]

VARIABLES
    op,                 \* the function (or the script) being run, "idle" before
    pc,                 \* the position in it
    balance,            \* arguments of the two loops
    annual_rate,
    monthly_payment,
    max_months,
    remaining_balance,  \* locals of the two loops
    total_interest,
    monthly_interest,
    day,
    month,
    timeline,
    accrued,            \* history: the sum of every daily_interest computed
    principal,          \* arguments of the direct calls of the loan formulas
    months,
    months_elapsed,
    total_term,
    prev,               \* what the call for the month before returned
    debts,              \* the script's list of debt records
    glob,               \* the script's global names that are bound, with their values
    result              \* what the call returned, or how the script ended

vars == << op, pc, balance, annual_rate, monthly_payment, max_months,
           remaining_balance, total_interest, monthly_interest, day, month,
           timeline, accrued, principal, months, months_elapsed, total_term,
           prev, debts, glob, result >>

loopLocals == << remaining_balance, total_interest, monthly_interest, day,
                 month, timeline, accrued >>

args == << balance, annual_rate, monthly_payment, max_months >>

loanArgs == << principal, months, months_elapsed, total_term, prev >>

script == << debts, glob >>

Init ==
    /\ op = "idle"
    /\ pc = "idle"
    /\ balance = Zero
    /\ annual_rate = Zero
    /\ monthly_payment = Zero
    /\ max_months = 0
    /\ remaining_balance = Zero
    /\ total_interest = Zero
    /\ monthly_interest = Zero
    /\ day = 0
    /\ month = 0
    /\ timeline = << >>
    /\ accrued = Zero
    /\ principal = Zero
    /\ months = 0
    /\ months_elapsed = 0
    /\ total_term = 0
    /\ prev = NoResult
    /\ debts = << >>
    /\ glob = << >>
    /\ result = NoResult

(***************************************************************************)
(* The inputs drawn for the two loops.                                     *)
(***************************************************************************)
LoopBalances == { Zero, R(10), R(1000) }

LoopRates == { Zero, Frac(24, 100) }

LoopPayments == { Zero, R(15), R(20), R(400), R(1200) }

(***************************************************************************)
(* calculate_revolving_borrowing_cost_daily(balance, annual_rate,          *)
(*                                          monthly_payment)               *)
(***************************************************************************)
CallRevolving ==
    /\ op = "idle"
    /\ \E b \in LoopBalances, r \in LoopRates, p \in LoopPayments :
          /\ balance' = b
          /\ annual_rate' = r
          /\ monthly_payment' = p
          /\ remaining_balance' = b
    /\ total_interest' = Zero
    /\ accrued' = Zero
    /\ op' = "revolving"
    /\ pc' = "while"
    /\ UNCHANGED << max_months, monthly_interest, day, month, timeline,
                    loanArgs, script, result >>

\* the model follows the loop until the balance has grown by MaxGrowth
Horizon ==
    /\ pc = "while"
    /\ RLt(RAdd(balance, R(MaxGrowth)), remaining_balance)

\* line 42-43: while remaining_balance > 0
RevWhile ==
    /\ pc = "while"
    /\ ~Horizon
    /\ IF RLt(Zero, remaining_balance)
       THEN /\ monthly_interest' = Zero
            /\ day' = 0
            /\ pc' = "for"
       ELSE /\ pc' = "return"
            /\ UNCHANGED << monthly_interest, day >>
    /\ UNCHANGED << op, args, remaining_balance, total_interest, month,
                    timeline, accrued, loanArgs, script, result >>

\* lines 44-51: one day of the month
RevDay ==
    /\ pc = "for"
    /\ LET a == AccrueDay(remaining_balance, monthly_interest, total_interest,
                          daily_rate_of(annual_rate), monthly_payment)
       IN  /\ remaining_balance' = a.rb
           /\ monthly_interest' = a.mi
           /\ total_interest' = a.ti
           /\ accrued' = RAdd(accrued, a.di)
           /\ day' = IF a.brk THEN day ELSE day + 1
           /\ pc' = IF a.brk \/ day + 1 = days_in_month THEN "after_for" ELSE "for"
    /\ UNCHANGED << op, args, month, timeline, loanArgs, script, result >>

\* lines 52-58
RevMonthEnd ==
    /\ pc = "after_for"
    /\ LET e == MonthEnd(remaining_balance, monthly_interest, total_interest,
                         monthly_payment)
       IN  /\ remaining_balance' = e.rb
           /\ total_interest' = e.ti
           /\ pc' = IF e.brk THEN "return" ELSE "while"
    /\ UNCHANGED << op, args, monthly_interest, day, month, timeline, accrued,
                    loanArgs, script, result >>

\* line 59: back to the direct caller, or to line 133 of the script
RevReturn ==
    /\ pc = "return"
    /\ result' = Ok(Round2(total_interest))
    /\ pc' = IF op = "app" THEN "line_133" ELSE "done"
    /\ UNCHANGED << op, args, loopLocals, loanArgs, script >>

(***************************************************************************)
(* generate_repayment_timeline(balance, annual_rate, monthly_payment,      *)
(*                             max_months)                                 *)
(***************************************************************************)
CallTimeline ==
    /\ op = "idle"
    /\ \E b \in LoopBalances, r \in LoopRates, p \in LoopPayments,
          mm \in 0 .. MaxHorizon :
          /\ balance' = b
          /\ annual_rate' = r
          /\ monthly_payment' = p
          /\ max_months' = mm
          /\ remaining_balance' = b
    /\ timeline' = << >>
    /\ month' = 1
    /\ op' = "timeline"
    /\ pc' = "tl_for"
    /\ UNCHANGED << total_interest, monthly_interest, day, accrued, loanArgs,
                    script, result >>

\* a variant without the clamp of lines 82-83
TlBalance_without_clamp(rb, rate, payment) ==
    RAdd(rb, RSub(Fl(RMul(rb, RDiv(rate, R(12)))), payment))

\* lines 80-83: the balance after one more month
TlBalance(rb, rate, payment) ==
    LET monthly_rate == RDiv(rate, R(12))
        interest == Fl(RMul(rb, monthly_rate))
        rb2 == RAdd(rb, RSub(interest, payment))
    IN  IF RLt(rb2, Zero) THEN Zero ELSE rb2

\* lines 77-84: one iteration of "for month in range(1, max_months + 1)"
TlMonth ==
    /\ pc = "tl_for"
    /\ IF month > max_months \/ RLe(remaining_balance, Zero)
       THEN /\ pc' = "tl_return"
            /\ UNCHANGED << remaining_balance, timeline, month >>
       ELSE LET rb2 == TlBalance(remaining_balance, annual_rate, monthly_payment)
            IN  /\ remaining_balance' = rb2
                /\ timeline' = Append(timeline, << month, rb2 >>)
                /\ month' = month + 1
                /\ pc' = "tl_for"
    /\ UNCHANGED << op, args, total_interest, monthly_interest, day, accrued,
                    loanArgs, script, result >>

\* line 85
TlReturn ==
    /\ pc = "tl_return"
    /\ result' = Ok(timeline)
    /\ pc' = "done"
    /\ UNCHANGED << op, args, loopLocals, loanArgs, script >>

(***************************************************************************)
(* Direct calls of the loan formulas.                                      *)
(***************************************************************************)
Principals == { Zero, R(7), R(12) }

FixedRates == { Zero, AnnualOf(R(2)), AnnualOf(Frac(3, 2)) }

Terms == -1 .. MaxTerm

CallMonthlyPayment ==
    /\ op = "idle"
    /\ \E p \in Principals, r \in FixedRates, n \in Terms :
          /\ principal' = p
          /\ annual_rate' = r
          /\ months' = n
          /\ result' = calculate_monthly_payment(p, r, n)
    /\ op' = "monthly_payment"
    /\ pc' = "done"
    /\ UNCHANGED << balance, monthly_payment, max_months, loopLocals,
                    months_elapsed, total_term, prev, script >>

CallRemainingBalance ==
    /\ op = "idle"
    /\ \E p \in Principals, r \in FixedRates, m \in 0 .. MaxElapsed, t \in Terms :
          /\ principal' = p
          /\ annual_rate' = r
          /\ months_elapsed' = m
          /\ total_term' = t
          /\ result' = calculate_remaining_balance(p, r, m, t)
    /\ op' = "remaining_balance"
    /\ pc' = "done"
    /\ UNCHANGED << balance, monthly_payment, max_months, loopLocals, months,
                    prev, script >>

\* the same loan evaluated again one month later
CallRemainingBalanceLater ==
    /\ op = "remaining_balance"
    /\ months_elapsed < MaxElapsed
    /\ months_elapsed' = months_elapsed + 1
    /\ prev' = result
    /\ result' = calculate_remaining_balance(principal, annual_rate,
                                             months_elapsed + 1, total_term)
    /\ UNCHANGED << op, pc, args, loopLocals, principal, months, total_term,
                    script >>

(***************************************************************************)
(* The script (lines 88-211).  glob holds the global names the script has  *)
(* bound so far: reading a name outside DOMAIN glob raises NameError.  A   *)
(* debt record is a dict: its keys are the record's DOMAIN.  The chart of  *)
(* lines 226-270 is drawn from the values modelled here and binds nothing  *)
(* they depend on.                                                         *)
(***************************************************************************)
Bound(name) == name \in DOMAIN glob

Bind(g, new) == [k \in DOMAIN g \cup DOMAIN new |-> IF k \in DOMAIN new THEN new[k] ELSE g[k]]

\* dict.get(key, default)
Get(d, key, default) == IF key \in DOMAIN d THEN d[key] ELSE default

RECURSIVE SumR(_)
SumR(seq) == IF seq = << >> THEN Zero ELSE RAdd(Head(seq), SumR(Tail(seq)))

RECURSIVE MaxI(_)
MaxI(seq) ==
    IF Len(seq) = 1 THEN Head(seq)
    ELSE LET m == MaxI(Tail(seq)) IN IF Head(seq) > m THEN Head(seq) ELSE m

Max0(i) == IF i < 0 THEN 0 ELSE i

\* the inputs drawn for the form
FormFixedBalances == { R(7) }

FormFixedRates == { Zero, AnnualOf(R(2)) }

FormTerms == { 3 }

\* (today.year - start.year) * 12 + today.month - start.month
FormMonthDiffs == { -1, 1, 4 }

FormRevolvingBalances == { R(500) }

FormRevolvingRates == { Frac(73, 100) }

FormCustomPayments == { R(600) }

FormMortgageBalances == { Zero, R(4095) }

FormMortgageRates == { Zero, AnnualOf(R(2)) }

FormAmortizations == { 12 }

FormMortgageMonthDiffs == { -1, 6, 13 }

FormFees == { R(50) }

\* lines 92-93
StartApp ==
    /\ op = "idle"
    /\ \E n \in 1 .. MaxDebts : glob' = [num_debts |-> n]
    /\ debts' = << >>
    /\ op' = "app"
    /\ pc' = "line_94"
    /\ UNCHANGED << args, loopLocals, loanArgs, result >>

\* lines 94-125: one Fixed debt
AppFixedDebt ==
    /\ op = "app" /\ pc = "line_94"
    /\ Len(debts) < glob.num_debts
    /\ \E bal \in FormFixedBalances, rate \in FormFixedRates,
          term_months \in FormTerms, diff \in FormMonthDiffs :
          LET elapsed == Max0(diff)
              remaining_term == Max0(term_months - elapsed)
              rb == calculate_remaining_balance(bal, rate, elapsed, term_months).val
              mp == calculate_monthly_payment(bal, rate, term_months).val
              remaining_interest == calculate_total_interest(rb, rate, remaining_term).val
          IN  /\ debts' = Append(debts,
                     [name |-> Len(debts) + 1, type |-> "Fixed", balance |-> bal,
                      rate |-> rate, remaining_term |-> remaining_term,
                      monthly_payment |-> mp[1],
                      remaining_interest |-> remaining_interest,
                      remaining_balance |-> rb])
              /\ glob' = Bind(glob,
                     [months_elapsed |-> elapsed, remaining_term |-> remaining_term,
                      remaining_balance |-> rb, monthly_payment |-> mp[1],
                      periodic_rate |-> mp[2],
                      remaining_interest |-> remaining_interest])
    /\ UNCHANGED << op, pc, args, loopLocals, loanArgs, result >>

\* lines 94-100, 127-133: one Revolving debt, up to the call of
\* calculate_revolving_borrowing_cost_daily
AppRevolvingDebt ==
    /\ op = "app" /\ pc = "line_94"
    /\ Len(debts) < glob.num_debts
    /\ \E bal \in FormRevolvingBalances, rate \in FormRevolvingRates,
          use_custom_payment \in BOOLEAN, custom_payment \in FormCustomPayments :
          LET minimum == calculate_revolving_payment(bal, rate)
              pay == IF use_custom_payment THEN RMax(custom_payment, minimum)
                     ELSE minimum
          IN  /\ glob' = Bind(glob, [balance |-> bal, rate |-> rate,
                                     monthly_payment |-> pay])
              /\ balance' = bal
              /\ annual_rate' = rate
              /\ monthly_payment' = pay
              /\ remaining_balance' = bal
    /\ total_interest' = Zero
    /\ accrued' = Zero
    /\ pc' = "while"
    /\ UNCHANGED << op, max_months, monthly_interest, day, month, timeline,
                    loanArgs, debts, result >>

\* lines 133-151: the call has returned
AppRevolvingDone ==
    /\ op = "app" /\ pc = "line_133"
    /\ LET remaining_term ==
               IF RLt(Zero, glob.monthly_payment)
               THEN Trunc(RDiv(glob.balance, glob.monthly_payment)) ELSE 0
       IN  /\ debts' = Append(debts,
                  [name |-> Len(debts) + 1, type |-> "Revolving",
                   balance |-> glob.balance, rate |-> glob.rate,
                   monthly_payment |-> glob.monthly_payment,
                   total_interest |-> result.val,
                   remaining_balance |-> glob.balance,
                   remaining_term |-> remaining_term])
           /\ glob' = Bind(glob, [total_interest |-> result.val,
                                  remaining_term |-> remaining_term])
    /\ pc' = "line_94"
    /\ UNCHANGED << op, args, loopLocals, loanArgs, result >>

\* lines 156-172
AppMortgage ==
    /\ op = "app" /\ pc = "line_94"
    /\ Len(debts) = glob.num_debts
    /\ \E mortgage_balance \in FormMortgageBalances,
          mortgage_rate \in FormMortgageRates,
          mortgage_amortization \in FormAmortizations,
          diff \in FormMortgageMonthDiffs :
          LET form == [mortgage_balance |-> mortgage_balance,
                       mortgage_rate |-> mortgage_rate,
                       mortgage_amortization |-> mortgage_amortization]
              elapsed == Max0(diff)
              remaining_term == Max0(mortgage_amortization - elapsed)
              rb == calculate_remaining_balance(mortgage_balance, mortgage_rate,
                                                elapsed, mortgage_amortization).val
              mp == calculate_monthly_payment(mortgage_balance, mortgage_rate,
                                              mortgage_amortization).val
              interest == calculate_total_interest(rb, mortgage_rate,
                                                   remaining_term).val
          IN  IF RLt(Zero, mortgage_balance) /\ mortgage_amortization > 0
              THEN glob' = Bind(Bind(glob, form),
                       [months_elapsed |-> elapsed,
                        remaining_term |-> remaining_term,
                        remaining_balance |-> rb,
                        mortgage_payment |-> mp[1],
                        periodic_rate |-> mp[2],
                        remaining_mortgage_interest |-> interest])
              ELSE \* no start date is asked for
                   /\ diff = -1
                   /\ glob' = Bind(glob, form)
    /\ pc' = "line_176"
    /\ UNCHANGED << op, args, loopLocals, loanArgs, debts, result >>

\* lines 61-71
calculate_weighted_average_interest(ds, mortgage_balance, mortgage_rate) ==
    LET total_balance ==
            RAdd(mortgage_balance, SumR([i \in DOMAIN ds |-> ds[i].balance]))
        weighted_sum ==
            RAdd(RMul(mortgage_balance, mortgage_rate),
                 SumR([i \in DOMAIN ds |-> RMul(ds[i].balance, ds[i].rate)]))
    IN  IF IsZero(total_balance) THEN Zero
        ELSE Round2(RMul(RDiv(weighted_sum, total_balance), R(100)))

\* the debts whose name is in selected_debts, in the order of the list
RECURSIVE Chosen(_, _)
Chosen(ds, selected) ==
    IF ds = << >> THEN << >>
    ELSE (IF Head(ds).name \in selected THEN << Head(ds) >> ELSE << >>)
         \o Chosen(Tail(ds), selected)

\* lines 193-211: the comparison table, read from the bound names g
Comparison(g, ds) ==
    LET current_interest ==
            RAdd(g.remaining_mortgage_interest,
                 SumR([i \in DOMAIN ds |-> Get(ds[i], "total_interest", Zero)]))
    IN  [current_interest |-> current_interest,
         current_payment |->
            RAdd(g.mortgage_payment,
                 SumR([i \in DOMAIN ds |-> ds[i].monthly_payment])),
         current_months |->
            MaxI(<< g.mortgage_amortization,
                    MaxI([i \in DOMAIN ds |-> Get(ds[i], "remaining_term", 0)]) >>),
         consolidated_interest |-> g.consolidated_total_interest,
         consolidated_payment |-> g.consolidated_monthly_payment,
         consolidated_months |-> g.new_amortization,
         net_savings |-> RSub(current_interest, g.consolidated_total_interest)]

\* lines 176-211
AppConsolidate ==
    /\ op = "app" /\ pc = "line_176"
    /\ \E new_rate \in FormMortgageRates, new_amortization \in FormAmortizations,
          fees \in FormFees, selected_debts \in SUBSET (1 .. Len(debts)) :
          LET g1 == Bind(glob,
                    [new_rate |-> new_rate, new_amortization |-> new_amortization,
                     fees |-> fees, selected_debts |-> selected_debts,
                     pre_consolidation_wair |->
                        calculate_weighted_average_interest(
                            debts, glob.mortgage_balance, glob.mortgage_rate)])
              chosen == Chosen(debts, selected_debts)
              new_balance ==
                  RAdd(RAdd(g1.remaining_balance,
                            SumR([i \in DOMAIN chosen |->
                                     Get(chosen[i], "remaining_balance",
                                         chosen[i].balance)])),
                       fees)
              g2 == Bind(g1,
                    [new_balance |-> new_balance,
                     consolidated_monthly_payment |->
                        calculate_monthly_payment(new_balance, new_rate,
                                                  new_amortization).val[1],
                     consolidated_total_interest |->
                        calculate_total_interest(new_balance, new_rate,
                                                 new_amortization).val])
          IN  IF selected_debts = {} \/ new_amortization <= 0
              THEN glob' = g1 /\ result' = Ok(Zero)
              ELSE IF "remaining_balance" \notin DOMAIN g1
              THEN glob' = g1 /\ result' = Raise("NameError")
              ELSE IF "remaining_mortgage_interest" \notin DOMAIN g2
                      \/ "mortgage_payment" \notin DOMAIN g2
              THEN glob' = g2 /\ result' = Raise("NameError")
              ELSE /\ glob' = Bind(g2, [comparison_data |-> Comparison(g2, debts)])
                   /\ result' = Ok(Zero)
    /\ pc' = "done"
    /\ UNCHANGED << op, args, loopLocals, loanArgs, debts >>

Next ==
    \/ CallRevolving
    \/ RevWhile
    \/ RevDay
    \/ RevMonthEnd
    \/ RevReturn
    \/ CallTimeline
    \/ TlMonth
    \/ TlReturn
    \/ CallMonthlyPayment
    \/ CallRemainingBalance
    \/ CallRemainingBalanceLater

Spec == Init /\ [][Next]_vars

\* The interpreter keeps executing the loop it is in: at a position inside
\* one of the two loops (and within the model's range of balances) a step
\* is eventually taken.  Every step of Next from such a position changes
\* pc, day or month.
position == << pc, day, month >>

Positions ==
    {"idle", "while", "for", "after_for", "return", "tl_for", "tl_return", "done"}

Running ==
    /\ pc \in {"while", "for", "after_for", "return", "tl_for", "tl_return"}
    /\ ~Horizon
    /\ pc' \in Positions
    /\ day' \in 0 .. days_in_month
    /\ month' \in 0 .. MaxHorizon + 1

FairSpec == Spec /\ WF_position(Running)

\* one evaluation of the script
AppNext ==
    \/ StartApp
    \/ AppFixedDebt
    \/ AppRevolvingDebt
    \/ RevWhile
    \/ RevDay
    \/ RevMonthEnd
    \/ RevReturn
    \/ AppRevolvingDone
    \/ AppMortgage
    \/ AppConsolidate

AppSpec == Init /\ [][AppNext]_vars

(***************************************************************************)
(* Properties.                                                             *)
(***************************************************************************)

\* a month of the revolving simulation has ended with the debt unpaid and
\* the payment no larger than the interest accrued over that month
NonAmortizing ==
    /\ op = "revolving" /\ pc = "after_for"
    /\ RLt(Zero, remaining_balance)
    /\ RLe(monthly_payment, monthly_interest)

\* C1: a call of the revolving simulation with balance > 0 and a payment
\* that is at most the interest accrued over one 30-day month ends in the
\* error NonTerminatingPayment (runs that leave the model's range of
\* balances are left undecided).
C1_NonTerminatingPaymentReported ==
    NonAmortizing ~> (result.kind = "NonTerminatingPayment" \/ Horizon)

\* C2: both loops finish after a bounded number of iterations: the timeline
\* never holds more than max_months pairs, and every call of the revolving
\* simulation and of the timeline generator returns (runs that leave the
\* model's range of balances are left undecided).
C2_LoopsAreCapped ==
    /\ [](op = "timeline" => Len(timeline) <= max_months /\ month <= max_months + 1)
    /\ (op \in {"revolving", "timeline"}) ~> (pc = "done" \/ Horizon)

\* C3: for a fixed loan with total_term >= 1 the returned remaining balance
\* lies between 0 and the principal, does not increase from one elapsed
\* month to the next, and is 0 once months_elapsed >= total_term.
C3_RemainingBalanceInRange ==
    (op = "remaining_balance" /\ total_term >= 1) =>
        /\ result.kind = "ok"
        /\ RLe(Zero, result.val)
        /\ RLe(result.val, principal)
        /\ prev.kind = "ok" => RLe(result.val, prev.val)
        /\ months_elapsed >= total_term => result.val = Zero

\* the interest figure of a debt record: remaining interest of a Fixed
\* debt, total interest of a Revolving one
InterestFigure(d) ==
    IF d.type = "Fixed" THEN d.remaining_interest ELSE d.total_interest

\* C4: the current scenario's total interest is the sum of every debt's
\* interest figure plus the mortgage's remaining interest, and the net
\* savings are that total minus the consolidated total interest.
C4_CurrentInterestCountsEveryDebt ==
    (op = "app" /\ Bound("comparison_data")) =>
        LET total == RAdd(glob.remaining_mortgage_interest,
                          SumR([i \in DOMAIN debts |-> InterestFigure(debts[i])]))
        IN  /\ glob.comparison_data.current_interest = total
            /\ glob.comparison_data.net_savings =
                   RSub(total, glob.consolidated_total_interest)

\* the remaining balance of the mortgage entered in the form
MortgageRemainingBalance ==
    IF RLt(Zero, glob.mortgage_balance)
    THEN calculate_remaining_balance(glob.mortgage_balance, glob.mortgage_rate,
                                     glob.months_elapsed,
                                     glob.mortgage_amortization).val
    ELSE Zero

\* C5: whenever a consolidation is projected (a debt is selected) the
\* evaluation succeeds and new_balance is the mortgage's own remaining
\* balance (0 for a mortgage balance of 0) plus the remaining balances of
\* exactly the selected debts plus the fees.
C5_NewBalanceFromMortgageAndSelected ==
    (op = "app" /\ pc = "done" /\ glob.selected_debts # {}) =>
        /\ result.kind = "ok"
        /\ Bound("new_balance")
        /\ glob.new_balance =
               RAdd(RAdd(MortgageRemainingBalance,
                         SumR([i \in DOMAIN Chosen(debts, glob.selected_debts) |->
                                 Chosen(debts, glob.selected_debts)[i].remaining_balance])),
                    glob.fees)

\* C6: calculate_monthly_payment and calculate_remaining_balance called
\* with a term <= 0 end in an error and return no number.
C6_NonPositiveTermRejected ==
    /\ (op = "monthly_payment" /\ months <= 0) => result.kind # "ok"
    /\ (op = "remaining_balance" /\ total_term <= 0) => result.kind # "ok"

\* C7: for total_term >= 1, calculate_remaining_balance returns the
\* principal at months_elapsed = 0; at rate 0 it returns 0 at
\* months_elapsed = total_term and, up to there, principal / total_term
\* less than for the month before.
C7_BoundaryIdentities ==
    (op = "remaining_balance" /\ total_term >= 1) =>
        /\ months_elapsed = 0 => result = Ok(principal)
        /\ (IsZero(annual_rate) /\ months_elapsed = total_term) => result = Ok(Zero)
        /\ (IsZero(annual_rate) /\ months_elapsed <= total_term /\ prev.kind = "ok") =>
               /\ result.kind = "ok"
               /\ RSub(prev.val, result.val) = RDiv(principal, R(total_term))

\* a zero-rate loan of a positive principal evaluated at the end of its
\* term, after the evaluation for the month before
C7_Witness ==
    /\ op = "remaining_balance"
    /\ IsZero(annual_rate) /\ RLt(Zero, principal)
    /\ total_term >= 2 /\ months_elapsed = total_term
    /\ prev.kind = "ok" /\ RLt(Zero, prev.val)
    /\ result = Ok(Zero)

\* C8: the current scenario's payoff horizon is the largest of the debts'
\* remaining terms and the mortgage's remaining term
\* max(0, mortgage_amortization - months_elapsed).
C8_HorizonUsesRemainingMortgageTerm ==
    (op = "app" /\ Bound("comparison_data")) =>
        glob.comparison_data.current_months =
            MaxI(<< Max0(glob.mortgage_amortization - glob.months_elapsed),
                    MaxI([i \in DOMAIN debts |-> debts[i].remaining_term]) >>)

\* C9: the timeline's months are 1, 2, ..., n with n <= max_months; no
\* balance in it is negative; a balance of 0 is the last pair only; a
\* starting balance of 0 gives the empty timeline; a timeline whose balance
\* never reached 0 has exactly max_months pairs; the timeline is returned.
C9_TimelineShape ==
    op = "timeline" =>
        /\ Len(timeline) <= max_months
        /\ \A i \in 1 .. Len(timeline) :
              /\ timeline[i][1] = i
              /\ RLe(Zero, timeline[i][2])
              /\ i < Len(timeline) => RLt(Zero, timeline[i][2])
        /\ pc = "done" =>
              /\ result = Ok(timeline)
              /\ IsZero(balance) => timeline = << >>
              /\ RLt(Zero, remaining_balance) => Len(timeline) = max_months

\* a timeline that stopped early, at the month the balance reached 0
C9_Witness ==
    /\ op = "timeline" /\ pc = "done"
    /\ Len(timeline) >= 2 /\ Len(timeline) < max_months
    /\ timeline[Len(timeline)][2] = Zero
    /\ RLt(Zero, annual_rate)

\* C10: in the revolving simulation the balance is never negative; every
\* daily interest is in total_interest exactly once (while a month runs,
\* and after a month that did not pay the debt off, the month's interest
\* is still to be added, once); on return the balance is 0 and the result
\* is the sum of the daily interests, rounded (0 for a balance of 0).
C10_InterestBookedOnce ==
    op = "revolving" =>
        /\ RLe(Zero, remaining_balance)
        /\ pc \in {"while", "return", "done"} => total_interest = accrued
        /\ pc = "for" => RAdd(total_interest, monthly_interest) = accrued
        /\ pc = "after_for" =>
              IF IsZero(remaining_balance) THEN total_interest = accrued
              ELSE RAdd(total_interest, monthly_interest) = accrued
        /\ pc \in {"return", "done"} => IsZero(remaining_balance)
        /\ pc = "done" =>
              /\ result = Ok(Round2(accrued))
              /\ IsZero(balance) => IsZero(accrued)

\* a run that returned after full months and a last, partial month, with
\* interest accrued in both
C10_Witness ==
    /\ op = "revolving" /\ pc = "done"
    /\ RLt(Zero, monthly_interest)
    /\ RLt(monthly_interest, accrued)
====
